---- MODULE Spec2Model ----
(***************************************************************************)
(* SUM aggregate accumulators of datafusion/functions-aggregate/src/sum.rs *)
(*                                                                         *)
(* Native values (T::Native of Int64Type / UInt64Type, and the u64 row     *)
(* counter) are 64-bit patterns written as four little-endian limbs of 16  *)
(* bits, so that wrapping arithmetic is carried out at its real width.     *)
(* Option<X> is a sequence: <<>> is None and <<x>> is Some(x).             *)
(***************************************************************************)
EXTENDS Integers, Sequences, FiniteSets, Bags, TLC

VARIABLES
    plan,            \* planning: the argument type, what return_type answered, what was built
    mode,            \* which constructor built `acc`: "plain", "sliding" or "grouped"
    overflow_checks, \* build flavour: TRUE panics on u64 overflow, FALSE wraps
    acc,             \* the accumulator under test (SumAccumulator / SlidingSumAccumulator)
    status,          \* "live", or "panicked" once a call has aborted
    last,            \* the most recent call: what was called, how it ended, what it returned
    window,          \* ghost: bag of the rows supplied (plain) / currently in scope (sliding)
    tracked,         \* ghost: only update/retract calls so far, every retract within the window
    roundtrip,       \* ghost: the batch just applied and the accumulator before it; active once
                     \*        the very next call has retracted that batch
    calls,           \* number of calls made so far
    supplied,        \* number of rows passed to update_batch / merge_batch so far
    parts,           \* several accumulators side by side: partial accumulators 1 and 2 and
                     \*        merge target 3; one scalar accumulator per group; the forward
                     \*        and the reversed run
    rows,            \* ghost: per accumulator of `parts`, the rows it holds
    pc,              \* phase of a run over `parts`: "feed" then "merged"; "forward" then
                     \*        "reverse"
    premerge         \* ghost: the merge target as it was before the merge

vars == <<plan, mode, overflow_checks, acc, status, last, window, tracked, roundtrip,
          calls, supplied, parts, rows, pc, premerge>>

(***************************************************************************)
(* Bounds                                                                  *)
(***************************************************************************)
MaxRows == 3
MaxCalls == 3

(***************************************************************************)
(* Native 64-bit values                                                    *)
(***************************************************************************)
LimbBits == 16
NativeBits == 64
Base == 2 ^ LimbBits
NLimbs == NativeBits \div LimbBits

None == <<>>
Some(x) == <<x>>

FromNat(n) == [i \in 1..NLimbs |-> IF i = 1 THEN n % Base
                                   ELSE IF i = 2 THEN (n \div Base) % Base ELSE 0]
Zero == FromNat(0)
One == FromNat(1)
AllOnes == [i \in 1..NLimbs |-> Base - 1]
I64Max == [i \in 1..NLimbs |-> IF i = NLimbs THEN (Base \div 2) - 1 ELSE Base - 1]
I64Min == [i \in 1..NLimbs |-> IF i = NLimbs THEN Base \div 2 ELSE 0]

RECURSIVE AddLimbs(_, _, _)
AddLimbs(x, y, c) ==
    IF x = <<>> THEN <<>>
    ELSE LET s == Head(x) + Head(y) + c
         IN  <<s % Base>> \o AddLimbs(Tail(x), Tail(y), s \div Base)

RECURSIVE CarryOut(_, _, _)
CarryOut(x, y, c) ==
    IF x = <<>> THEN c
    ELSE CarryOut(Tail(x), Tail(y), (Head(x) + Head(y) + c) \div Base)

RECURSIVE SubLimbs(_, _, _)
SubLimbs(x, y, b) ==
    IF x = <<>> THEN <<>>
    ELSE LET d == Head(x) - Head(y) - b
         IN  <<d % Base>> \o SubLimbs(Tail(x), Tail(y), IF d < 0 THEN 1 ELSE 0)

RECURSIVE BorrowOut(_, _, _)
BorrowOut(x, y, b) ==
    IF x = <<>> THEN b
    ELSE BorrowOut(Tail(x), Tail(y), IF Head(x) - Head(y) - b < 0 THEN 1 ELSE 0)

usize_as(n) == FromNat(n)

\* mutant: addition that saturates at the largest pattern instead of wrapping
add_saturating(x, y) == IF CarryOut(x, y, 0) = 1 THEN AllOnes ELSE AddLimbs(x, y, 0)

add_wrapping(x, y) == AddLimbs(x, y, 0)
sub_wrapping(x, y) == SubLimbs(x, y, 0)

(***************************************************************************)
(* Data types and arrays                                                   *)
(***************************************************************************)
Int64 == [id |-> "Int64"]
UInt64 == [id |-> "UInt64"]
Float64 == [id |-> "Float64"]

\* the other arrow DataType variants the planner can hand to Sum
Int8 == [id |-> "Int8"]
Int16 == [id |-> "Int16"]
Int32 == [id |-> "Int32"]
UInt8 == [id |-> "UInt8"]
UInt16 == [id |-> "UInt16"]
UInt32 == [id |-> "UInt32"]
Float16 == [id |-> "Float16"]
Float32 == [id |-> "Float32"]
Utf8 == [id |-> "Utf8"]
Boolean == [id |-> "Boolean"]
Date32 == [id |-> "Date32"]
Null == [id |-> "Null"]

\* DataType::Decimal128(u8, i8), DataType::Decimal256(u8, i8), DataType::Dictionary(key, value)
Decimal128(precision, scale) == [id |-> "Decimal128", precision |-> precision, scale |-> scale]
Decimal256(precision, scale) == [id |-> "Decimal256", precision |-> precision, scale |-> scale]
Dictionary(key, value) == [id |-> "Dictionary", key |-> key, value |-> value]

DECIMAL128_MAX_PRECISION == 38
DECIMAL256_MAX_PRECISION == 76

\* the precision of a decimal type is a u8
U8Bits == 8
U8Max == 2 ^ U8Bits - 1

\* u8 `+`: the value modulo 2^8, and whether it overflowed
u8_add(x, y) == [value |-> (x + y) % (U8Max + 1), overflow |-> x + y > U8Max]

\* Ord::min
min(x, y) == IF x <= y THEN x ELSE y

is_signed_integer(data_type) == data_type.id \in {"Int8", "Int16", "Int32", "Int64"}
is_unsigned_integer(data_type) == data_type.id \in {"UInt8", "UInt16", "UInt32", "UInt64"}
is_floating(data_type) == data_type.id \in {"Float16", "Float32", "Float64"}

PrimitiveType(data_type) == data_type.id

ArrayOf(data_type, values) == [data_type |-> data_type, values |-> values]

\* AsArray::as_primitive::<T>: the downcast succeeds exactly on an array of T
as_primitive_ok(array, T) == PrimitiveType(array.data_type) = T

null_count(values) == Cardinality({i \in DOMAIN values : values[i] = None})

RECURSIVE FoldSum(_, _)
FoldSum(values, total) ==
    IF values = <<>> THEN total
    ELSE FoldSum(Tail(values),
                 IF Head(values) = None THEN total
                 ELSE add_wrapping(total, Head(values)[1]))

\* arrow::compute::sum: None for an empty or all-null array, else the wrapping sum
compute_sum(values) ==
    IF null_count(values) = Len(values) THEN None
    ELSE Some(FoldSum(values, Zero))

\* ScalarValue::new_primitive::<T>(value, data_type)
new_primitive(value, data_type) == [data_type |-> data_type, value |-> value]

\* impl From<u64> for ScalarValue
ScalarFromU64(n) == [data_type |-> UInt64, value |-> Some(n)]

Ok(self, ret) == [self |-> self, result |-> "Ok", ret |-> ret]
Panic(self) == [self |-> self, result |-> "Panic", ret |-> <<>>]

\* `x += y` / `x -= y` on u64: the wrapped value, and whether it overflowed
u64_add(x, y) == [value |-> add_wrapping(x, y), overflow |-> CarryOut(x, y, 0) = 1]
u64_sub(x, y) == [value |-> sub_wrapping(x, y), overflow |-> BorrowOut(x, y, 0) = 1]

\* Option::get_or_insert
get_or_insert(opt, default) == IF opt = None THEN default ELSE opt[1]

(***************************************************************************)
(* SumAccumulator<T>                                                       *)
(***************************************************************************)
\* mutant: the running sum starts at zero instead of None
SumAccumulator_new_zero(data_type) == [sum |-> Some(usize_as(0)), data_type |-> data_type]

SumAccumulator_new(data_type) == [sum |-> None, data_type |-> data_type]

\* an evaluate that takes the sum out of the accumulator: self.sum.take()
SumAccumulator_evaluate_take(self) ==
    Ok([self EXCEPT !.sum = None], <<new_primitive(self.sum, self.data_type)>>)

SumAccumulator_evaluate(self) == Ok(self, <<new_primitive(self.sum, self.data_type)>>)

\* mutant: an accumulator without a sum ships zero instead of null
SumAccumulator_state_zero(self) ==
    Ok(self, <<new_primitive(Some(get_or_insert(self.sum, usize_as(0))), self.data_type)>>)

SumAccumulator_state(self) == Ok(self, <<SumAccumulator_evaluate(self).ret[1]>>)

\* mutant: the batch sum replaces the running sum instead of being added to it
SumAccumulator_update_batch_overwrite(self, values) ==
    IF ~as_primitive_ok(values[1], PrimitiveType(self.data_type)) THEN Panic(self)
    ELSE LET x == compute_sum(values[1].values)
         IN  IF x # None THEN Ok([self EXCEPT !.sum = Some(x[1])], <<>>)
             ELSE Ok(self, <<>>)

\* an update_batch that seeds an empty sum with the batch's sum and then adds it again
SumAccumulator_update_batch_seeded(self, values) ==
    IF ~as_primitive_ok(values[1], PrimitiveType(self.data_type)) THEN Panic(self)
    ELSE LET x == compute_sum(values[1].values)
         IN  IF x = None THEN Ok(self, <<>>)
             ELSE Ok([self EXCEPT !.sum =
                         Some(add_wrapping(get_or_insert(self.sum, x[1]), x[1]))], <<>>)

SumAccumulator_update_batch(self, values) ==
    IF ~as_primitive_ok(values[1], PrimitiveType(self.data_type)) THEN Panic(self)
    ELSE LET x == compute_sum(values[1].values)
         IN  IF x # None
             THEN Ok([self EXCEPT !.sum =
                         Some(add_wrapping(get_or_insert(self.sum, usize_as(0)), x[1]))],
                     <<>>)
             ELSE Ok(self, <<>>)

SumAccumulator_merge_batch(self, states) == SumAccumulator_update_batch(self, states)

(***************************************************************************)
(* SlidingSumAccumulator<T>                                                *)
(***************************************************************************)
SlidingSumAccumulator_new(data_type) ==
    [sum |-> usize_as(0), count |-> Zero, data_type |-> data_type]

\* mutant: null is derived from the sum being zero instead of from the count
SlidingSumAccumulator_evaluate_by_sum(self) ==
    LET v == IF self.sum # Zero THEN Some(self.sum) ELSE None
    IN  Ok(self, <<new_primitive(v, self.data_type)>>)

SlidingSumAccumulator_evaluate(self) ==
    LET v == IF self.count # Zero THEN Some(self.sum) ELSE None
    IN  Ok(self, <<new_primitive(v, self.data_type)>>)

SlidingSumAccumulator_state(self) ==
    Ok(self, <<SlidingSumAccumulator_evaluate(self).ret[1], ScalarFromU64(self.count)>>)

\* mutant: the count grows by the number of rows, nulls included
SlidingSumAccumulator_update_batch_len(self, values) ==
    IF ~as_primitive_ok(values[1], PrimitiveType(self.data_type)) THEN Panic(self)
    ELSE LET v == values[1].values
             c == u64_add(self.count, FromNat(Len(v)))
         IN  IF c.overflow /\ overflow_checks THEN Panic(self)
             ELSE LET s1 == [self EXCEPT !.count = c.value]
                      x == compute_sum(v)
                  IN  IF x # None
                      THEN Ok([s1 EXCEPT !.sum = add_wrapping(s1.sum, x[1])], <<>>)
                      ELSE Ok(s1, <<>>)

SlidingSumAccumulator_update_batch(self, values) ==
    IF ~as_primitive_ok(values[1], PrimitiveType(self.data_type)) THEN Panic(self)
    ELSE LET v == values[1].values
             c == u64_add(self.count, FromNat(Len(v) - null_count(v)))
         IN  IF c.overflow /\ overflow_checks THEN Panic(self)
             ELSE LET s1 == [self EXCEPT !.count = c.value]
                      x == compute_sum(v)
                  IN  IF x # None
                      THEN Ok([s1 EXCEPT !.sum = add_wrapping(s1.sum, x[1])], <<>>)
                      ELSE Ok(s1, <<>>)

\* mutant: the partial counts are not added
SlidingSumAccumulator_merge_batch_no_count(self, states) ==
    IF ~as_primitive_ok(states[1], PrimitiveType(self.data_type)) THEN Panic(self)
    ELSE LET x == compute_sum(states[1].values)
         IN  IF x # None THEN Ok([self EXCEPT !.sum = add_wrapping(self.sum, x[1])], <<>>)
             ELSE Ok(self, <<>>)

SlidingSumAccumulator_merge_batch(self, states) ==
    IF ~as_primitive_ok(states[1], PrimitiveType(self.data_type)) THEN Panic(self)
    ELSE LET x == compute_sum(states[1].values)
             s1 == IF x # None THEN [self EXCEPT !.sum = add_wrapping(self.sum, x[1])]
                   ELSE self
         IN  IF ~as_primitive_ok(states[2], PrimitiveType(UInt64)) THEN Panic(s1)
             ELSE LET y == compute_sum(states[2].values)
                  IN  IF y = None THEN Ok(s1, <<>>)
                      ELSE LET c == u64_add(s1.count, y[1])
                           IN  IF c.overflow /\ overflow_checks THEN Panic(s1)
                               ELSE Ok([s1 EXCEPT !.count = c.value], <<>>)

\* mutant: the count shrinks by the number of rows, nulls included
SlidingSumAccumulator_retract_batch_len(self, values) ==
    IF ~as_primitive_ok(values[1], PrimitiveType(self.data_type)) THEN Panic(self)
    ELSE LET v == values[1].values
             x == compute_sum(v)
             s1 == IF x # None THEN [self EXCEPT !.sum = sub_wrapping(self.sum, x[1])]
                   ELSE self
             c == u64_sub(s1.count, FromNat(Len(v)))
         IN  IF c.overflow /\ overflow_checks THEN Panic(s1)
             ELSE Ok([s1 EXCEPT !.count = c.value], <<>>)

\* a retract_batch that checks the count first and returns an error instead of underflowing
SlidingSumAccumulator_retract_batch_checked(self, values) ==
    IF ~as_primitive_ok(values[1], PrimitiveType(self.data_type)) THEN Panic(self)
    ELSE LET v == values[1].values
             x == compute_sum(v)
             c == u64_sub(self.count, FromNat(Len(v) - null_count(v)))
         IN  IF c.overflow THEN [self |-> self, result |-> "Err", ret |-> <<>>]
             ELSE Ok([self EXCEPT !.sum = IF x # None THEN sub_wrapping(@, x[1]) ELSE @,
                                  !.count = c.value], <<>>)

SlidingSumAccumulator_retract_batch(self, values) ==
    IF ~as_primitive_ok(values[1], PrimitiveType(self.data_type)) THEN Panic(self)
    ELSE LET v == values[1].values
             x == compute_sum(v)
             s1 == IF x # None THEN [self EXCEPT !.sum = sub_wrapping(self.sum, x[1])]
                   ELSE self
             c == u64_sub(s1.count, FromNat(Len(v) - null_count(v)))
         IN  IF c.overflow /\ overflow_checks THEN Panic(s1)
             ELSE Ok([s1 EXCEPT !.count = c.value], <<>>)

(***************************************************************************)
(* Sum (the AggregateUDFImpl)                                              *)
(***************************************************************************)
\* Sum::state_fields: one nullable field named after the aggregate, of the return type
state_fields(name, return_type) ==
    <<[name |-> <<name, "sum">>, data_type |-> return_type, nullable |-> TRUE]>>

\* Result<X> of the Sum methods: Ok(x), an error of some kind, or a panic
OkValue(x) == [result |-> "Ok", ret |-> x]
exec_err(msg) == [result |-> "Err", error |-> "Execution", msg |-> msg]
not_impl_err(msg) == [result |-> "Err", error |-> "NotImplemented", msg |-> msg]
Panicked == [result |-> "Panic"]

\* coerced_types of Sum::return_type, with min(MAX, precision + 10) computed in u8
RECURSIVE coerced_types(_)
coerced_types(data_type) ==
    CASE data_type.id = "Dictionary" -> coerced_types(data_type.value)
      [] data_type.id = "Decimal128" ->
            LET p == u8_add(data_type.precision, 10)
            IN  IF p.overflow /\ overflow_checks THEN Panicked
                ELSE OkValue(Decimal128(min(DECIMAL128_MAX_PRECISION, p.value),
                                        data_type.scale))
      [] data_type.id = "Decimal256" ->
            LET p == u8_add(data_type.precision, 10)
            IN  IF p.overflow /\ overflow_checks THEN Panicked
                ELSE OkValue(Decimal256(min(DECIMAL256_MAX_PRECISION, p.value),
                                        data_type.scale))
      [] OTHER ->
            IF is_signed_integer(data_type) THEN OkValue(Int64)
            ELSE IF is_unsigned_integer(data_type) THEN OkValue(UInt64)
            ELSE IF is_floating(data_type) THEN OkValue(Float64)
            ELSE exec_err(<<"Sum not supported for", data_type>>)

\* a return_type that keeps the width of the argument
return_type_same(arg_types) ==
    LET r == coerced_types(arg_types[1])
    IN  IF r.result = "Ok" THEN OkValue(arg_types[1]) ELSE r

\* a return_type that widens a decimal by 10 digits without the cap
return_type_uncapped(arg_types) ==
    LET data_type == arg_types[1]
    IN  IF data_type.id \in {"Decimal128", "Decimal256"}
        THEN OkValue([data_type EXCEPT !.precision = (@ + 10) % (U8Max + 1)])
        ELSE coerced_types(data_type)

\* a return_type that answers a dictionary type with the dictionary type itself
return_type_no_unwrap(arg_types) ==
    LET r == coerced_types(arg_types[1])
    IN  IF r.result = "Ok" /\ arg_types[1].id = "Dictionary" THEN OkValue(arg_types[1])
        ELSE r

\* Sum::return_type
return_type(arg_types) == coerced_types(arg_types[1])

\* AccumulatorArgs: the fields the constructors read
AccumulatorArgs(name, data_type) == [name |-> name, data_type |-> data_type]

\* downcast_sum!: the arrow primitive type the helper is instantiated with
downcast_sum(args) ==
    CASE args.data_type.id = "UInt64" -> OkValue("UInt64Type")
      [] args.data_type.id = "Int64" -> OkValue("Int64Type")
      [] args.data_type.id = "Float64" -> OkValue("Float64Type")
      [] args.data_type.id = "Decimal128" -> OkValue("Decimal128Type")
      [] args.data_type.id = "Decimal256" -> OkValue("Decimal256Type")
      [] OTHER -> not_impl_err(<<"Sum not supported for", args.name, args.data_type>>)

\* PrimitiveGroupsAccumulator::new: no group yet
PrimitiveGroupsAccumulator_new(data_type, prim_fn) ==
    [values |-> <<>>, seen_values |-> <<>>, data_type |-> data_type, prim_fn |-> prim_fn]

\* an accumulator() that instantiates SumAccumulator for any integer or float type
accumulator_any_numeric(args) ==
    IF is_signed_integer(args.data_type) \/ is_unsigned_integer(args.data_type)
       \/ is_floating(args.data_type)
    THEN OkValue([struct |-> "SumAccumulator", T |-> args.data_type.id \o "Type",
                  self |-> SumAccumulator_new(args.data_type)])
    ELSE downcast_sum(args)

\* Sum::accumulator
accumulator(args) ==
    LET T == downcast_sum(args)
    IN  IF T.result = "Ok"
        THEN OkValue([struct |-> "SumAccumulator", T |-> T.ret,
                      self |-> SumAccumulator_new(args.data_type)])
        ELSE T

\* a create_groups_accumulator whose closure assigns instead of adding: |x, y| *x = y
create_groups_accumulator_assign(args) ==
    LET T == downcast_sum(args)
    IN  IF T.result = "Ok"
        THEN OkValue([struct |-> "PrimitiveGroupsAccumulator", T |-> T.ret,
                      self |-> PrimitiveGroupsAccumulator_new(args.data_type, "assign")])
        ELSE T

\* Sum::create_groups_accumulator
create_groups_accumulator(args) ==
    LET T == downcast_sum(args)
    IN  IF T.result = "Ok"
        THEN OkValue([struct |-> "PrimitiveGroupsAccumulator", T |-> T.ret,
                      self |-> PrimitiveGroupsAccumulator_new(args.data_type, "add_wrapping")])
        ELSE T

\* Sum::create_sliding_accumulator
create_sliding_accumulator(args) ==
    LET T == downcast_sum(args)
    IN  IF T.result = "Ok"
        THEN OkValue([struct |-> "SlidingSumAccumulator", T |-> T.ret,
                      self |-> SlidingSumAccumulator_new(args.data_type)])
        ELSE T

\* Sum::reverse_expr
reverse_expr == "Identical"

(***************************************************************************)
(* PrimitiveGroupsAccumulator<T, F>: one running total per group           *)
(***************************************************************************)
\* the closure the accumulator was built with, applied to a group total and a value
prim_fn(self, x, y) ==
    CASE self.prim_fn = "add_wrapping" -> add_wrapping(x, y)
      [] self.prim_fn = "assign" -> y

\* Vec::resize(new_len, value) when growing
resize(vec, new_len, value) ==
    [i \in 1..(IF new_len > Len(vec) THEN new_len ELSE Len(vec)) |->
        IF i <= Len(vec) THEN vec[i] ELSE value]

\* rows i..Len(values) folded into the totals of their groups; group index g is
\* position g + 1
RECURSIVE accumulate(_, _, _, _)
accumulate(self, values, group_indices, i) ==
    IF i > Len(values) THEN self
    ELSE LET g == group_indices[i] + 1
             s1 == IF values[i] = None THEN self
                   ELSE [self EXCEPT !.values[g] = prim_fn(self, @, values[i][1]),
                                     !.seen_values[g] = TRUE]
         IN  accumulate(s1, values, group_indices, i + 1)

\* GroupedAccumulator update(batch, group_indices, total_groups)
PrimitiveGroupsAccumulator_update_batch(self, values, group_indices, total_num_groups) ==
    LET grown == [self EXCEPT !.values = resize(@, total_num_groups, usize_as(0)),
                              !.seen_values = resize(@, total_num_groups, FALSE)]
    IN  Ok(accumulate(grown, values[1].values, group_indices, 1), <<>>)

\* GroupedAccumulator evaluate(): the total of each group seen, null for the others
PrimitiveGroupsAccumulator_evaluate(self) ==
    Ok(self, <<ArrayOf(self.data_type,
                       [g \in 1..Len(self.values) |->
                           IF self.seen_values[g] THEN Some(self.values[g]) ELSE None])>>)

(***************************************************************************)
(* Exact (unwrapped) arithmetic, for reference: one limb wider             *)
(***************************************************************************)
is_signed(data_type) == data_type.id = "Int64"

Extend(x, data_type) ==
    x \o <<IF is_signed(data_type) /\ x[NLimbs] >= Base \div 2 THEN Base - 1 ELSE 0>>

Low64(w) == SubSeq(w, 1, NLimbs)

InRange(w, data_type) == Extend(Low64(w), data_type) = w

RECURSIVE ExactSum(_, _)
ExactSum(values, data_type) ==
    IF values = <<>> THEN Extend(Zero, data_type)
    ELSE IF Head(values) = None THEN ExactSum(Tail(values), data_type)
    ELSE AddLimbs(Extend(Head(values)[1], data_type), ExactSum(Tail(values), data_type), 0)

RECURSIVE ExactBagSum(_, _)
ExactBagSum(bag, data_type) ==
    IF bag = EmptyBag THEN Extend(Zero, data_type)
    ELSE LET e == CHOOSE e \in BagToSet(bag) : TRUE
             rest == ExactBagSum(bag (-) SetToBag({e}), data_type)
         IN  IF e = None THEN rest ELSE AddLimbs(Extend(e[1], data_type), rest, 0)

(***************************************************************************)
(* Inputs                                                                  *)
(***************************************************************************)
Modes == {"plain", "sliding"}
AccTypes == {Int64, UInt64}
ArrayTypes == {Int64, UInt64, Float64}

Values == {One, AllOnes, I64Max}
Elems == {None} \cup {Some(v) : v \in Values}

SeqsUpTo(S, n) == UNION {[1..k -> S] : k \in 0..n}

\* one-column argument lists of at most n rows: every batch of the accumulator's own
\* type, and one batch of each other physical type
TypedBatches(data_type, n) == {<<ArrayOf(data_type, vs)>> : vs \in SeqsUpTo(Elems, n)}

Batches(data_type, n) ==
    TypedBatches(data_type, n)
    \cup (IF n = 0 THEN {}
          ELSE {<<ArrayOf(t, <<Some(One)>>)>> : t \in ArrayTypes \ {data_type}})

\* rows that SlidingSumAccumulator::state produces: (null, 0) or (sum, count > 0)
StateRows == {<<None, Zero>>, <<Some(One), FromNat(1)>>, <<Some(AllOnes), FromNat(2)>>,
              <<Some(I64Max), FromNat(1)>>}

Column(rs, j) == [i \in DOMAIN rs |-> IF j = 1 THEN rs[i][1] ELSE Some(rs[i][2])]

\* two-column argument lists of SlidingSumAccumulator::merge_batch, of at most n rows
StateBatches(data_type, n) ==
    {<<ArrayOf(data_type, Column(rs, 1)), ArrayOf(UInt64, Column(rs, 2))>> :
        rs \in SeqsUpTo(StateRows, n)}
    \cup (IF n = 0 THEN {}
          ELSE {<<ArrayOf(t, <<Some(One)>>), ArrayOf(UInt64, <<Some(One)>>)>> :
                   t \in ArrayTypes \ {data_type}}
               \cup {<<ArrayOf(data_type, <<Some(One)>>), ArrayOf(t, <<Some(One)>>)>> :
                        t \in ArrayTypes \ {UInt64}})

(***************************************************************************)
(* Ghost bookkeeping                                                       *)
(***************************************************************************)
\* the bag of the rows of an array
BagOf(values) ==
    [e \in {values[i] : i \in DOMAIN values} |->
        Cardinality({i \in DOMAIN values : values[i] = e})]

\* the number of non-null rows of a bag of rows
NonNullCount(bag) == BagCardinality(bag) - CopiesIn(None, bag)

\* whether some column of the argument list is not of the type the call downcasts it to
Mismatch(args, types) == \E i \in DOMAIN types : ~as_primitive_ok(args[i], types[i])

NoCall == [op |-> "new", result |-> "Ok", ret |-> <<>>, mismatch |-> FALSE,
           changed |-> FALSE, exact |-> <<>>]
NoRoundTrip == [active |-> FALSE, pre |-> <<>>, batch |-> <<>>]

NoPlan == [pc |-> "none"]

Idle == /\ parts = <<>>
        /\ rows = <<>>
        /\ pc = "idle"
        /\ premerge = <<>>

(***************************************************************************)
(* One accumulator driven by the engine                                    *)
(***************************************************************************)
Init ==
    /\ plan = NoPlan
    /\ mode \in Modes
    /\ overflow_checks = TRUE
    /\ \E data_type \in AccTypes :
          acc = IF mode = "plain" THEN SumAccumulator_new(data_type)
                ELSE SlidingSumAccumulator_new(data_type)
    /\ status = "live"
    /\ last = NoCall
    /\ window = EmptyBag
    /\ tracked = TRUE
    /\ roundtrip = NoRoundTrip
    /\ calls = 0
    /\ supplied = 0
    /\ Idle

\* the effect of a call that returned or panicked with outcome r; `exact` is the
\* call's result in exact arithmetic
Returned(op, r, mismatch, exact) ==
    /\ acc' = r.self
    /\ status' = IF r.result = "Panic" THEN "panicked" ELSE "live"
    /\ last' = [op |-> op, result |-> r.result, ret |-> r.ret, mismatch |-> mismatch,
                changed |-> (r.self # acc), exact |-> exact]

\* the current sum as an exact number (a fresh SumAccumulator starts from zero)
ExactOf(self) ==
    Extend(IF mode = "plain" THEN get_or_insert(self.sum, Zero) ELSE self.sum,
           self.data_type)

SumUpdateBatch ==
    /\ mode = "plain" /\ status = "live" /\ calls < MaxCalls
    /\ \E values \in Batches(acc.data_type, MaxRows - supplied) :
          LET r == SumAccumulator_update_batch(acc, values)
              T == acc.data_type
          IN  /\ Returned("update_batch", r, Mismatch(values, <<PrimitiveType(T)>>),
                          AddLimbs(ExactOf(acc), ExactSum(values[1].values, T), 0))
              /\ window' = IF r.result = "Ok" THEN window (+) BagOf(values[1].values)
                           ELSE window
              /\ supplied' = supplied + Len(values[1].values)
    /\ calls' = calls + 1
    /\ roundtrip' = NoRoundTrip
    /\ UNCHANGED <<plan, mode, overflow_checks, tracked, parts, rows, pc, premerge>>

SumMergeBatch ==
    /\ mode = "plain" /\ status = "live" /\ calls < MaxCalls
    /\ \E states \in Batches(acc.data_type, MaxRows - supplied) :
          LET r == SumAccumulator_merge_batch(acc, states)
              T == acc.data_type
          IN  /\ Returned("merge_batch", r, Mismatch(states, <<PrimitiveType(T)>>),
                          AddLimbs(ExactOf(acc), ExactSum(states[1].values, T), 0))
              /\ window' = IF r.result = "Ok" THEN window (+) BagOf(states[1].values)
                           ELSE window
              /\ supplied' = supplied + Len(states[1].values)
    /\ calls' = calls + 1
    /\ tracked' = FALSE
    /\ roundtrip' = NoRoundTrip
    /\ UNCHANGED <<plan, mode, overflow_checks, parts, rows, pc, premerge>>

SumEvaluate ==
    /\ mode = "plain" /\ status = "live" /\ calls < MaxCalls
    /\ Returned("evaluate", SumAccumulator_evaluate(acc), FALSE, <<>>)
    /\ calls' = calls + 1
    /\ roundtrip' = NoRoundTrip
    /\ UNCHANGED <<plan, mode, overflow_checks, window, tracked, supplied, parts, rows, pc, premerge>>

SumState ==
    /\ mode = "plain" /\ status = "live" /\ calls < MaxCalls
    /\ Returned("state", SumAccumulator_state(acc), FALSE, <<>>)
    /\ calls' = calls + 1
    /\ roundtrip' = NoRoundTrip
    /\ UNCHANGED <<plan, mode, overflow_checks, window, tracked, supplied, parts, rows, pc, premerge>>

SlidingUpdateBatch ==
    /\ mode = "sliding" /\ status = "live" /\ calls < MaxCalls
    /\ \E values \in Batches(acc.data_type, MaxRows - supplied) :
          LET r == SlidingSumAccumulator_update_batch(acc, values)
              T == acc.data_type
          IN  /\ Returned("update_batch", r, Mismatch(values, <<PrimitiveType(T)>>),
                          AddLimbs(ExactOf(acc), ExactSum(values[1].values, T), 0))
              /\ window' = IF r.result = "Ok" THEN window (+) BagOf(values[1].values)
                           ELSE window
              /\ supplied' = supplied + Len(values[1].values)
              /\ roundtrip' = [active |-> FALSE, pre |-> acc, batch |-> values]
    /\ calls' = calls + 1
    /\ UNCHANGED <<plan, mode, overflow_checks, tracked, parts, rows, pc, premerge>>

\* the engine retracts rows that are in the window (or a batch of the wrong type)
SlidingRetractBatch ==
    /\ mode = "sliding" /\ status = "live" /\ calls < MaxCalls
    /\ \E values \in Batches(acc.data_type, BagCardinality(window)) :
          LET r == SlidingSumAccumulator_retract_batch(acc, values)
              T == acc.data_type
              mismatch == Mismatch(values, <<PrimitiveType(T)>>)
          IN  /\ mismatch \/ BagOf(values[1].values) \sqsubseteq window
              /\ Returned("retract_batch", r, mismatch,
                          SubLimbs(ExactOf(acc), ExactSum(values[1].values, T), 0))
              /\ window' = IF r.result = "Ok" THEN window (-) BagOf(values[1].values)
                           ELSE window
              /\ roundtrip' =
                    IF last.op = "update_batch" /\ last.result = "Ok"
                       /\ roundtrip.batch = values
                    THEN [roundtrip EXCEPT !.active = TRUE]
                    ELSE NoRoundTrip
    /\ calls' = calls + 1
    /\ UNCHANGED <<plan, mode, overflow_checks, tracked, supplied, parts, rows, pc, premerge>>

SlidingMergeBatch ==
    /\ mode = "sliding" /\ status = "live" /\ calls < MaxCalls
    /\ \E states \in StateBatches(acc.data_type, MaxRows - supplied) :
          LET T == acc.data_type
          IN  /\ Returned("merge_batch", SlidingSumAccumulator_merge_batch(acc, states),
                          Mismatch(states, <<PrimitiveType(T), PrimitiveType(UInt64)>>),
                          AddLimbs(ExactOf(acc), ExactSum(states[1].values, T), 0))
              /\ supplied' = supplied + Len(states[1].values)
    /\ calls' = calls + 1
    /\ tracked' = FALSE
    /\ roundtrip' = NoRoundTrip
    /\ UNCHANGED <<plan, mode, overflow_checks, window, parts, rows, pc, premerge>>

SlidingEvaluate ==
    /\ mode = "sliding" /\ status = "live" /\ calls < MaxCalls
    /\ Returned("evaluate", SlidingSumAccumulator_evaluate(acc), FALSE, <<>>)
    /\ calls' = calls + 1
    /\ roundtrip' = NoRoundTrip
    /\ UNCHANGED <<plan, mode, overflow_checks, window, tracked, supplied, parts, rows, pc, premerge>>

SlidingState ==
    /\ mode = "sliding" /\ status = "live" /\ calls < MaxCalls
    /\ Returned("state", SlidingSumAccumulator_state(acc), FALSE, <<>>)
    /\ calls' = calls + 1
    /\ roundtrip' = NoRoundTrip
    /\ UNCHANGED <<plan, mode, overflow_checks, window, tracked, supplied, parts, rows, pc, premerge>>

Next ==
    \/ SumUpdateBatch
    \/ SumMergeBatch
    \/ SumEvaluate
    \/ SumState
    \/ SlidingUpdateBatch
    \/ SlidingRetractBatch
    \/ SlidingMergeBatch
    \/ SlidingEvaluate
    \/ SlidingState

Spec == Init /\ [][Next]_vars

(***************************************************************************)
(* Partial and final aggregation: two partial accumulators are fed, their  *)
(* state() is shipped as a batch and merged into a third accumulator       *)
(***************************************************************************)
New(data_type) == IF mode = "plain" THEN SumAccumulator_new(data_type)
                  ELSE SlidingSumAccumulator_new(data_type)

update_batch(self, values) ==
    IF mode = "plain" THEN SumAccumulator_update_batch(self, values)
    ELSE SlidingSumAccumulator_update_batch(self, values)

merge_batch(self, states) ==
    IF mode = "plain" THEN SumAccumulator_merge_batch(self, states)
    ELSE SlidingSumAccumulator_merge_batch(self, states)

state(self) ==
    IF mode = "plain" THEN SumAccumulator_state(self) ELSE SlidingSumAccumulator_state(self)

evaluate(self) ==
    IF mode = "plain" THEN SumAccumulator_evaluate(self)
    ELSE SlidingSumAccumulator_evaluate(self)

\* the engine turns the state() of several accumulators into one array per state field
StateArrays(states) ==
    [j \in 1..Len(states[1]) |->
        ArrayOf(states[1][j].data_type, [i \in 1..Len(states) |-> states[i][j].value])]

RECURSIVE BagToSeq(_)
BagToSeq(bag) ==
    IF bag = EmptyBag THEN <<>>
    ELSE LET e == CHOOSE e \in BagToSet(bag) : TRUE
         IN  <<e>> \o BagToSeq(bag (-) SetToBag({e}))

InitMerge ==
    /\ plan = NoPlan
    /\ mode \in Modes
    /\ overflow_checks = TRUE
    /\ \E data_type \in AccTypes : parts = [i \in 1..3 |-> New(data_type)]
    /\ rows = [i \in 1..3 |-> EmptyBag]
    /\ pc = "feed"
    /\ premerge = <<>>
    /\ calls = 0
    /\ supplied = 0
    /\ acc = <<>>
    /\ status = "live"
    /\ last = NoCall
    /\ window = EmptyBag
    /\ tracked = TRUE
    /\ roundtrip = NoRoundTrip

FeedUpdateBatch(i) ==
    /\ pc = "feed" /\ calls < MaxCalls
    /\ \E values \in TypedBatches(parts[i].data_type, MaxRows - supplied) :
          /\ parts' = [parts EXCEPT ![i] = update_batch(@, values).self]
          /\ rows' = [rows EXCEPT ![i] = @ (+) BagOf(values[1].values)]
          /\ supplied' = supplied + Len(values[1].values)
    /\ calls' = calls + 1
    /\ UNCHANGED <<plan, mode, overflow_checks, acc, status, last, window, tracked, roundtrip,
                   pc, premerge>>

FeedRetractBatch(i) ==
    /\ pc = "feed" /\ calls < MaxCalls /\ mode = "sliding"
    /\ \E values \in TypedBatches(parts[i].data_type, BagCardinality(rows[i])) :
          /\ BagOf(values[1].values) \sqsubseteq rows[i]
          /\ parts' = [parts EXCEPT
                         ![i] = SlidingSumAccumulator_retract_batch(@, values).self]
          /\ rows' = [rows EXCEPT ![i] = @ (-) BagOf(values[1].values)]
    /\ calls' = calls + 1
    /\ UNCHANGED <<plan, mode, overflow_checks, acc, status, last, window, tracked, roundtrip,
                   supplied, pc, premerge>>

\* both partial states in one merge_batch call of two rows
MergeJoint ==
    /\ pc = "feed"
    /\ LET states == <<state(parts[1]).ret, state(parts[2]).ret>>
       IN  parts' = [parts EXCEPT ![3] = merge_batch(@, StateArrays(states)).self]
    /\ premerge' = parts[3]
    /\ pc' = "merged"
    /\ UNCHANGED <<plan, mode, overflow_checks, acc, status, last, window, tracked, roundtrip,
                   calls, supplied, rows>>

\* one merge_batch call of one row per partial state
MergeSeparate ==
    /\ pc = "feed"
    /\ LET first == merge_batch(parts[3], StateArrays(<<state(parts[1]).ret>>)).self
       IN  parts' = [parts EXCEPT
                       ![3] = merge_batch(first, StateArrays(<<state(parts[2]).ret>>)).self]
    /\ premerge' = parts[3]
    /\ pc' = "merged"
    /\ UNCHANGED <<plan, mode, overflow_checks, acc, status, last, window, tracked, roundtrip,
                   calls, supplied, rows>>

NextMerge ==
    \/ \E i \in 1..3 : FeedUpdateBatch(i)
    \/ \E i \in 1..3 : FeedRetractBatch(i)
    \/ MergeJoint
    \/ MergeSeparate

SpecMerge == InitMerge /\ [][NextMerge]_vars

(***************************************************************************)
(* Properties                                                              *)
(***************************************************************************)
Mutating == {"update_batch", "merge_batch", "retract_batch"}

\* the value evaluate() returned, when the last call was evaluate()
Evaluated == last.op = "evaluate" /\ last.result = "Ok"
Result == last.ret[1].value

\* the running sum as a native value (a SumAccumulator without a sum counts as zero)
CurrentSum == IF mode = "plain" THEN get_or_insert(acc.sum, Zero) ELSE acc.sum

\* the wrapping sum of the non-null rows of the ghost bag
WindowSum == Low64(ExactBagSum(window, acc.data_type))

\* C1: after any sequence of update_batch and merge_batch calls on a SumAccumulator,
\* evaluate() returns null iff no batch so far held a non-null element; a total that is
\* the zero value is returned as 0, not as null.
ScalarNullIffNoContribution ==
    (mode = "plain" /\ Evaluated) =>
        /\ (Result = None) <=> (NonNullCount(window) = 0)
        /\ (NonNullCount(window) > 0 /\ WindowSum = Zero) => Result = Some(Zero)

ScalarZeroTotalWitness ==
    /\ mode = "plain" /\ Evaluated
    /\ ~tracked
    /\ NonNullCount(window) > 0
    /\ CopiesIn(None, window) > 0
    /\ Result = Some(Zero)

\* C2: after update_batch calls that supplied at least one non-null element, evaluate()
\* of a SumAccumulator over an integer kind is the sum modulo 2^64 of exactly the
\* non-null elements supplied; nulls contribute nothing.
ScalarSumOfNonNull ==
    (mode = "plain" /\ tracked /\ Evaluated /\ NonNullCount(window) > 0) =>
        Result = Some(WindowSum)

ScalarSumWitness ==
    /\ mode = "plain" /\ tracked /\ Evaluated
    /\ NonNullCount(window) >= 2
    /\ CopiesIn(None, window) > 0
    /\ Result = Some(I64Min)

\* C4: while only update_batch and retract_batch have been called on a
\* SlidingSumAccumulator and every retracted row was in the window, count is the number
\* of non-null rows in the window and sum is their wrapping sum (zero when count is 0).
SlidingCountAndSum ==
    (mode = "sliding" /\ tracked) =>
        /\ acc.count = FromNat(NonNullCount(window))
        /\ acc.sum = WindowSum
        /\ acc.count = Zero => acc.sum = Zero

SlidingWindowWitness ==
    /\ mode = "sliding" /\ tracked
    /\ last.op = "retract_batch" /\ last.result = "Ok" /\ last.changed
    /\ CopiesIn(None, window) > 0
    /\ acc.count = FromNat(1)

\* C5: evaluate() of a SlidingSumAccumulator returns null iff count is 0 and returns sum
\* otherwise, whether or not sum is the zero value: a window whose non-null rows sum to 0
\* evaluates to 0 and a window without non-null rows evaluates to null.
SlidingNullIffCountZero ==
    (mode = "sliding" /\ Evaluated) =>
        /\ (Result = None) <=> (acc.count = Zero)
        /\ acc.count # Zero => Result = Some(acc.sum)
        /\ tracked => ((Result = None) <=> (NonNullCount(window) = 0))

SlidingZeroSumWitness ==
    /\ mode = "sliding" /\ Evaluated /\ tracked
    /\ NonNullCount(window) > 0
    /\ acc.sum = Zero
    /\ Result = Some(Zero)

\* C6: update_batch(B) immediately followed by retract_batch(B) leaves a
\* SlidingSumAccumulator with the sum and count it had before the update.
SlidingRoundTrip ==
    (roundtrip.active /\ last.result = "Ok") =>
        /\ acc.sum = roundtrip.pre.sum
        /\ acc.count = roundtrip.pre.count

SlidingRoundTripWitness ==
    /\ roundtrip.active /\ last.op = "retract_batch" /\ last.result = "Ok"
    /\ roundtrip.batch[1].values = <<Some(One), None>>
    /\ roundtrip.pre.sum = I64Max
    /\ acc.count = FromNat(1)

\* C7: the number of state fields Sum::state_fields declares equals the number of values
\* the accumulator's state() returns (two for the sliding accumulator, one otherwise).
StateFieldsMatchState ==
    (last.op = "state" /\ last.result = "Ok") =>
        Len(state_fields("SUM", acc.data_type)) = Len(last.ret)

\* C9: every update_batch, merge_batch and retract_batch call on arrays of the
\* accumulator's type returns Ok and leaves sum equal to the exact result modulo 2^64.
SumWrapsModulo ==
    (last.op \in Mutating /\ ~last.mismatch) =>
        /\ last.result = "Ok"
        /\ CurrentSum = Low64(last.exact)

SumWrapsWitness ==
    /\ mode = "plain" /\ acc.data_type = Int64
    /\ last.op = "update_batch" /\ last.result = "Ok"
    /\ ~InRange(last.exact, acc.data_type)
    /\ acc.sum = Some(I64Min)

\* C10: a call that receives an array of another physical type returns an internal
\* error to its caller and leaves the accumulator unchanged.
TypeMismatchReturnsError ==
    last.mismatch => (last.result = "Err" /\ ~last.changed)

\* one fresh accumulator updated once with all the rows of the given bags
Direct(bag) ==
    update_batch(New(parts[3].data_type),
                 <<ArrayOf(parts[3].data_type, BagToSeq(bag))>>).self

\* C3: updating two fresh SumAccumulators with B1 and B2 and merging their state() into a
\* third fresh one evaluates to the same result as one fresh SumAccumulator updated with
\* all of B.
PartialFinalEquivalence ==
    (pc = "merged" /\ mode = "plain" /\ premerge = SumAccumulator_new(premerge.data_type)) =>
        evaluate(parts[3]).ret = evaluate(Direct(rows[1] (+) rows[2])).ret

PartialFinalWitness ==
    /\ pc = "merged" /\ mode = "plain"
    /\ rows[3] = EmptyBag
    /\ NonNullCount(rows[1]) = 2
    /\ BagCardinality(rows[2]) > 0 /\ NonNullCount(rows[2]) = 0
    /\ evaluate(parts[3]).ret[1].value = Some(Zero)

\* C8: merging the two-field state() of sliding accumulators A and B into a sliding
\* accumulator C adds their sums (wrapping) and their counts to C's, so that C evaluates
\* to what one sliding accumulator holding all of the rows returns, null included.
SlidingMergeFieldwise ==
    (pc = "merged" /\ mode = "sliding") =>
        /\ parts[3].sum =
              add_wrapping(add_wrapping(premerge.sum, parts[1].sum), parts[2].sum)
        /\ parts[3].count =
              FromNat(NonNullCount(rows[1]) + NonNullCount(rows[2]) + NonNullCount(rows[3]))
        /\ evaluate(parts[3]).ret = evaluate(Direct(rows[1] (+) rows[2] (+) rows[3])).ret

SlidingMergeWitness ==
    /\ pc = "merged" /\ mode = "sliding"
    /\ BagCardinality(rows[1]) > 0 /\ parts[1].count = Zero
    /\ parts[2].count = FromNat(1)
    /\ premerge.count = FromNat(1)
    /\ parts[3].sum = I64Min

(***************************************************************************)
(* Planning: the engine asks Sum for the return type of an argument type   *)
(* and builds an accumulator, either for the type return_type answered or  *)
(* for a data type of its own choosing                                     *)
(***************************************************************************)
MaxDictDepth == 1

BaseTypes == {Int8, Int16, Int32, Int64, UInt8, UInt16, UInt32, UInt64,
              Float16, Float32, Float64, Utf8, Boolean, Date32, Null}
Precisions == 0..U8Max
Scales == {0, 2}
KeyTypes == {Int8, UInt32}

DecimalTypes == {Decimal128(p, s) : p \in Precisions, s \in Scales}
                \cup {Decimal256(p, s) : p \in Precisions, s \in Scales}

RECURSIVE DataTypes(_)
DataTypes(depth) ==
    IF depth = 0 THEN BaseTypes \cup DecimalTypes
    ELSE LET inner == DataTypes(depth - 1)
         IN  inner \cup {Dictionary(k, v) : k \in KeyTypes, v \in inner}

InitPlan ==
    /\ \E data_type \in DataTypes(MaxDictDepth) :
          plan = [pc |-> "start", arg_type |-> data_type, returned |-> <<>>, built |-> <<>>]
    /\ overflow_checks \in BOOLEAN
    /\ mode = "plain"
    /\ acc = <<>>
    /\ status = "live"
    /\ last = NoCall
    /\ window = EmptyBag
    /\ tracked = TRUE
    /\ roundtrip = NoRoundTrip
    /\ calls = 0
    /\ supplied = 0
    /\ Idle

ReturnType ==
    /\ plan.pc = "start"
    /\ plan' = [plan EXCEPT !.pc = "typed", !.returned = return_type(<<plan.arg_type>>)]
    /\ UNCHANGED <<mode, overflow_checks, acc, status, last, window, tracked, roundtrip,
                   calls, supplied, parts, rows, pc, premerge>>

\* the data type the engine builds for: what return_type answered, or the argument type
\* when it builds without asking
PlannedType == IF plan.pc = "typed" THEN plan.returned.ret ELSE plan.arg_type

Build(ctor, r) ==
    /\ plan.pc = "start" \/ (plan.pc = "typed" /\ plan.returned.result = "Ok")
    /\ plan' = [plan EXCEPT !.pc = "built",
                            !.built = [ctor |-> ctor, data_type |-> PlannedType,
                                       asked |-> (plan.pc = "typed"), r |-> r]]
    /\ UNCHANGED <<mode, overflow_checks, acc, status, last, window, tracked, roundtrip,
                   calls, supplied, parts, rows, pc, premerge>>

Accumulator == Build("accumulator", accumulator(AccumulatorArgs("SUM", PlannedType)))

CreateSlidingAccumulator ==
    Build("create_sliding_accumulator",
          create_sliding_accumulator(AccumulatorArgs("SUM", PlannedType)))

CreateGroupsAccumulator ==
    Build("create_groups_accumulator",
          create_groups_accumulator(AccumulatorArgs("SUM", PlannedType)))

NextPlan ==
    \/ ReturnType
    \/ Accumulator
    \/ CreateSlidingAccumulator
    \/ CreateGroupsAccumulator

SpecPlan == InitPlan /\ [][NextPlan]_vars

(***************************************************************************)
(* Properties of planning                                                  *)
(***************************************************************************)
\* the type of the values of a (possibly dictionary-encoded) column
RECURSIVE ElementType(_)
ElementType(data_type) ==
    IF data_type.id = "Dictionary" THEN ElementType(data_type.value) ELSE data_type

IsDecimal(data_type) == data_type.id \in {"Decimal128", "Decimal256"}

MaxPrecision(data_type) ==
    IF data_type.id = "Decimal128" THEN DECIMAL128_MAX_PRECISION
    ELSE DECIMAL256_MAX_PRECISION

\* a decimal type arrow accepts: 1 <= precision <= the maximum of its width
ValidDecimal(data_type) ==
    /\ IsDecimal(data_type)
    /\ 1 <= data_type.precision /\ data_type.precision <= MaxPrecision(data_type)

SupportedKinds == {"Int64", "UInt64", "Float64", "Decimal128", "Decimal256"}

\* C11: return_type fails with a not-implemented failure for every element type outside
\* {signed integer, unsigned integer, floating point, decimal}, a dictionary of such a
\* type included, and succeeds for every type inside that set
ReturnTypeNotImplemented ==
    plan.pc = "typed" =>
        LET e == ElementType(plan.arg_type)
        IN  /\ (is_signed_integer(e) \/ is_unsigned_integer(e) \/ is_floating(e)
                \/ ValidDecimal(e)) => plan.returned.result = "Ok"
            /\ ~(is_signed_integer(e) \/ is_unsigned_integer(e) \/ is_floating(e)
                 \/ IsDecimal(e))
               => (plan.returned.result = "Err" /\ plan.returned.error = "NotImplemented")

\* C12: each of accumulator, create_sliding_accumulator and create_groups_accumulator
\* succeeds exactly for Int64, UInt64, Float64, Decimal128 and Decimal256, returning a
\* scalar, a sliding and a grouped accumulator of that kind and data type, and otherwise
\* returns a not-implemented error and no accumulator
ConstructorsAgree ==
    plan.pc = "built" =>
        LET b == plan.built
        IN  IF b.data_type.id \in SupportedKinds
            THEN /\ b.r.result = "Ok"
                 /\ b.r.ret.struct =
                       (CASE b.ctor = "accumulator" -> "SumAccumulator"
                          [] b.ctor = "create_sliding_accumulator" -> "SlidingSumAccumulator"
                          [] b.ctor = "create_groups_accumulator"
                                -> "PrimitiveGroupsAccumulator")
                 /\ b.r.ret.T = b.data_type.id \o "Type"
                 /\ b.r.ret.self.data_type = b.data_type
            ELSE /\ b.r.result = "Err" /\ b.r.error = "NotImplemented"
                 /\ "ret" \notin DOMAIN b.r

ConstructorsAgreeWitness ==
    /\ plan.pc = "built"
    /\ plan.built.ctor = "accumulator"
    /\ plan.built.data_type = Decimal128(15, 2)
    /\ plan.built.r.result = "Ok"
    /\ plan.built.r.ret.struct = "SumAccumulator"

\* C13: for a decimal argument of either width with 1 <= p <= the maximum precision of
\* the width, return_type answers the decimal of the same width with precision
\* min(maximum, p + 10) and the same scale; the precision is never below p nor above
\* the maximum
DecimalPrecisionWidening ==
    (plan.pc = "typed" /\ ValidDecimal(plan.arg_type)) =>
        LET a == plan.arg_type
            m == MaxPrecision(a)
        IN  /\ plan.returned.result = "Ok"
            /\ plan.returned.ret =
                  [a EXCEPT !.precision = IF a.precision + 10 > m THEN m
                                          ELSE a.precision + 10]
            /\ plan.returned.ret.precision >= a.precision
            /\ plan.returned.ret.precision <= m

DecimalPrecisionWitness ==
    /\ plan.pc = "typed"
    /\ plan.arg_type = Decimal128(30, 2)
    /\ plan.returned = OkValue(Decimal128(38, 2))

\* C14: return_type answers Int64 for every signed integer type, UInt64 for every
\* unsigned integer type and Float64 for every floating-point type, whatever the width,
\* whatever the build, and the call changes nothing but the answer
FixedOutputTypes ==
    [][ReturnType =>
          LET a == plan.arg_type
          IN  /\ is_signed_integer(a) => plan'.returned = OkValue(Int64)
              /\ is_unsigned_integer(a) => plan'.returned = OkValue(UInt64)
              /\ is_floating(a) => plan'.returned = OkValue(Float64)
              /\ plan'.arg_type = a /\ plan'.built = plan.built
              /\ UNCHANGED <<mode, overflow_checks, acc, status, last, window, tracked,
                             roundtrip, calls, supplied, parts, rows, pc, premerge>>]_vars

FixedOutputWitness ==
    /\ plan.pc = "typed"
    /\ plan.arg_type = Int8
    /\ plan.returned = OkValue(Int64)

\* C19: whenever return_type succeeds its answer is one of Int64, UInt64, Float64,
\* Decimal128, Decimal256, and a scalar, sliding or grouped accumulator built for that
\* answer is built successfully
ReturnTypeComposes ==
    /\ (plan.pc = "typed" /\ plan.returned.result = "Ok")
          => plan.returned.ret.id \in SupportedKinds
    /\ (plan.pc = "built" /\ plan.built.asked)
          => (plan.built.r.result = "Ok" /\ plan.built.data_type = plan.returned.ret)

ReturnTypeComposesWitness ==
    /\ plan.pc = "built"
    /\ plan.built.asked
    /\ plan.arg_type = Dictionary(Int8, Float16)
    /\ plan.built.ctor = "create_groups_accumulator"
    /\ plan.built.r.result = "Ok"
    /\ plan.built.r.ret.self.data_type = Float64

(***************************************************************************)
(* Grouped aggregation: one PrimitiveGroupsAccumulator receives batches    *)
(* with a group index per row; next to it, one fresh SumAccumulator per    *)
(* group receives the rows of its group                                    *)
(***************************************************************************)
MaxGroups == 2

\* the rows of a batch that belong to group g, in batch order
RECURSIVE RowsOf(_, _, _)
RowsOf(values, group_indices, g) ==
    IF values = <<>> THEN <<>>
    ELSE (IF Head(group_indices) = g THEN <<Head(values)>> ELSE <<>>)
         \o RowsOf(Tail(values), Tail(group_indices), g)

InitGroups ==
    /\ plan = NoPlan
    /\ mode = "grouped"
    /\ overflow_checks = TRUE
    /\ \E data_type \in AccTypes :
          acc = create_groups_accumulator(AccumulatorArgs("SUM", data_type)).ret.self
    /\ status = "live"
    /\ last = NoCall
    /\ window = EmptyBag
    /\ tracked = TRUE
    /\ roundtrip = NoRoundTrip
    /\ calls = 0
    /\ supplied = 0
    /\ parts = <<>>
    /\ rows = <<>>
    /\ pc = "idle"
    /\ premerge = <<>>

\* the one update of a freshly built accumulator
GroupsUpdateBatch ==
    /\ calls = 0
    /\ \E values \in TypedBatches(acc.data_type, MaxRows - supplied),
          total_num_groups \in 1..MaxGroups :
          \E group_indices \in [1..Len(values[1].values) -> 0..(total_num_groups - 1)] :
             LET v == values[1].values
                 r == PrimitiveGroupsAccumulator_update_batch(acc, values, group_indices,
                                                              total_num_groups)
                 scalars == resize(parts, total_num_groups,
                                   SumAccumulator_new(acc.data_type))
                 bags == resize(rows, total_num_groups, EmptyBag)
             IN  /\ Returned("update_batch", r, FALSE, <<>>)
                 /\ parts' = [g \in 1..total_num_groups |->
                                 SumAccumulator_update_batch(
                                     scalars[g],
                                     <<ArrayOf(acc.data_type,
                                               RowsOf(v, group_indices, g - 1))>>).self]
                 /\ rows' = [g \in 1..total_num_groups |->
                                bags[g] (+) BagOf(RowsOf(v, group_indices, g - 1))]
                 /\ supplied' = supplied + Len(v)
    /\ calls' = calls + 1
    /\ UNCHANGED <<plan, mode, overflow_checks, window, tracked, roundtrip, pc, premerge>>

GroupsEvaluate ==
    /\ last.op # "evaluate"
    /\ Returned("evaluate", PrimitiveGroupsAccumulator_evaluate(acc), FALSE, <<>>)
    /\ UNCHANGED <<plan, mode, overflow_checks, window, tracked, roundtrip, calls, supplied,
                   parts, rows, pc, premerge>>

NextGroups ==
    \/ GroupsUpdateBatch
    \/ GroupsEvaluate

SpecGroups == InitGroups /\ [][NextGroups]_vars

\* C15: after one grouped update with any values (nulls allowed) and any assignment of rows
\* to groups, evaluate() of the grouped accumulator gives for each group what a fresh
\* SumAccumulator updated with that group's rows evaluates to: the wrapping sum of the
\* group's non-null values, and null for a group without a non-null row
GroupedConsistency ==
    (last.op = "evaluate" /\ last.result = "Ok") =>
        LET out == last.ret[1].values
        IN  /\ Len(out) = Len(parts)
            /\ \A g \in 1..Len(out) :
                  /\ out[g] = SumAccumulator_evaluate(parts[g]).ret[1].value
                  /\ out[g] = None <=> NonNullCount(rows[g]) = 0
                  /\ out[g] # None => out[g][1] = Low64(ExactBagSum(rows[g], acc.data_type))

\* two groups with two rows of a three-row batch in one of them
GroupedConsistencyWitness ==
    /\ last.op = "evaluate"
    /\ Len(parts) = 2
    /\ calls = 1
    /\ \E g \in 1..2 : NonNullCount(rows[g]) = 2 /\ rows[3 - g] # EmptyBag
    /\ \A g \in 1..2 : last.ret[1].values[g] # None

(***************************************************************************)
(* Reversal: the engine runs the aggregate over some row order, cut into   *)
(* batches, and the aggregate reverse_expr names over the same rows in     *)
(* another order, cut in another way                                       *)
(***************************************************************************)
\* rows[i] is what accumulator i of `parts` has been fed: the rows in the order fed, and
\* the number of batches they came in
NoRows == [seq |-> <<>>, batches |-> 0]

\* the batches that can still go to the reversed run: rows of the forward run not yet fed
ReorderedBatches(data_type, remaining) ==
    {<<ArrayOf(data_type, vs)>> :
        vs \in {b \in SeqsUpTo(BagToSet(remaining), BagCardinality(remaining)) :
                   b # <<>> /\ BagOf(b) \sqsubseteq remaining}}

InitReverse ==
    /\ plan = NoPlan
    /\ mode = "plain"
    /\ overflow_checks = TRUE
    /\ \E data_type \in AccTypes :
          LET args == AccumulatorArgs("SUM", data_type)
          IN  parts = <<accumulator(args).ret.self,
                        IF reverse_expr = "Identical" THEN accumulator(args).ret.self
                        ELSE <<>>>>
    /\ rows = <<NoRows, NoRows>>
    /\ pc = "forward"
    /\ premerge = <<>>
    /\ acc = <<>>
    /\ status = "live"
    /\ last = NoCall
    /\ window = EmptyBag
    /\ tracked = TRUE
    /\ roundtrip = NoRoundTrip
    /\ calls = 0
    /\ supplied = 0

Feed(i, values) ==
    /\ parts' = [parts EXCEPT ![i] = SumAccumulator_update_batch(@, values).self]
    /\ rows' = [rows EXCEPT ![i] = [seq |-> @.seq \o values[1].values,
                                    batches |-> @.batches + 1]]

ForwardUpdateBatch ==
    /\ pc = "forward"
    /\ \E values \in TypedBatches(parts[1].data_type, MaxRows - Len(rows[1].seq)) :
          /\ values[1].values # <<>>
          /\ Feed(1, values)
    /\ UNCHANGED <<plan, mode, overflow_checks, acc, status, last, window, tracked,
                   roundtrip, calls, supplied, pc, premerge>>

ReversedUpdateBatch ==
    /\ reverse_expr = "Identical"
    /\ rows[1].seq # <<>>
    /\ \E values \in ReorderedBatches(parts[2].data_type,
                                      BagOf(rows[1].seq) (-) BagOf(rows[2].seq)) :
          Feed(2, values)
    /\ pc' = "reverse"
    /\ UNCHANGED <<plan, mode, overflow_checks, acc, status, last, window, tracked,
                   roundtrip, calls, supplied, premerge>>

NextReverse ==
    \/ ForwardUpdateBatch
    \/ ReversedUpdateBatch

SpecReverse == InitReverse /\ [][NextReverse]_vars

\* C16: reverse_expr answers Identical, and once the reversed run has received the rows
\* of the forward run, in whatever order and cut into whatever batches, both
\* accumulators evaluate to the same value
ReverseIsIdentical ==
    /\ reverse_expr = "Identical"
    /\ BagOf(rows[1].seq) = BagOf(rows[2].seq)
          => SumAccumulator_evaluate(parts[1]).ret = SumAccumulator_evaluate(parts[2]).ret

\* three rows, wrapping on the way, fed in another order and in another number of batches
ReverseIsIdenticalWitness ==
    /\ pc = "reverse"
    /\ Len(rows[1].seq) = 3
    /\ BagOf(rows[1].seq) = BagOf(rows[2].seq)
    /\ rows[1].seq # rows[2].seq
    /\ rows[1].batches # rows[2].batches
    /\ None \in {rows[1].seq[i] : i \in 1..3}
    /\ parts[1].sum = Some(I64Min)

(***************************************************************************)
(* A caller that does not keep the precondition of retract_batch: the      *)
(* sliding accumulator is driven as the engine drives it, in either build  *)
(* flavour, up to the first retract_batch of rows that are not in the      *)
(* window                                                                  *)
(***************************************************************************)
InitAnyCaller ==
    /\ plan = NoPlan
    /\ mode = "sliding"
    /\ overflow_checks \in BOOLEAN
    /\ \E data_type \in AccTypes : acc = SlidingSumAccumulator_new(data_type)
    /\ status = "live"
    /\ last = NoCall
    /\ window = EmptyBag
    /\ tracked = TRUE
    /\ roundtrip = NoRoundTrip
    /\ calls = 0
    /\ supplied = 0
    /\ Idle

\* retract_batch of rows that are not all in the window, within the rows the run may
\* still pass; `roundtrip` keeps the accumulator as it was and the batch, `window` the
\* rows that were in scope
RetractOutsideWindow ==
    /\ status = "live" /\ calls < MaxCalls
    /\ \E values \in TypedBatches(acc.data_type, MaxRows - supplied) :
          LET r == SlidingSumAccumulator_retract_batch(acc, values)
              T == acc.data_type
          IN  /\ ~(BagOf(values[1].values) \sqsubseteq window)
              /\ acc' = r.self
              /\ last' = [op |-> "retract_batch", result |-> r.result, ret |-> r.ret,
                          mismatch |-> FALSE, changed |-> (r.self # acc),
                          exact |-> SubLimbs(ExactOf(acc), ExactSum(values[1].values, T), 0)]
              /\ status' = IF r.result = "Panic" THEN "panicked" ELSE "misused"
              /\ roundtrip' = [active |-> FALSE, pre |-> acc, batch |-> values]
    /\ calls' = calls + 1
    /\ tracked' = FALSE
    /\ UNCHANGED <<plan, mode, overflow_checks, window, supplied, parts, rows, pc, premerge>>

NextAnyCaller ==
    \/ SlidingUpdateBatch
    \/ SlidingRetractBatch
    \/ RetractOutsideWindow

SpecAnyCaller == InitAnyCaller /\ [][NextAnyCaller]_vars

\* the u64 x is below the natural number n
BelowNat(x, n) == (\A i \in 2..NLimbs : x[i] = 0) /\ x[1] < n

\* the number of non-null rows of the batch just retracted
Retracted == Len(roundtrip.batch[1].values) - null_count(roundtrip.batch[1].values)

\* the last call was a retract_batch of more non-null rows than the count
RetractedTooMany ==
    /\ last.op = "retract_batch"
    /\ ~tracked
    /\ BelowNat(roundtrip.pre.count, Retracted)

\* I2: count is the number of non-null rows in scope, added minus retracted
CountInScope ==
    LET in_scope == NonNullCount(window) - Retracted
    IN  in_scope >= 0 /\ acc.count = FromNat(in_scope)

\* C17 as stated: retract_batch of n > count non-null rows does not return an error and
\* does not leave the state unchanged; sum is decremented first, then count - n is
\* computed on the u64 with no guard, so count underflows and I2 no longer holds
RetractUnderflowsUnguarded ==
    RetractedTooMany =>
        /\ last.result # "Err"
        /\ acc # roundtrip.pre
        /\ acc.sum = sub_wrapping(roundtrip.pre.sum,
                                  compute_sum(roundtrip.batch[1].values)[1])
        /\ acc.count = sub_wrapping(roundtrip.pre.count, FromNat(Retracted))
        /\ ~CountInScope

\* C17 amended: retract_batch of n > count non-null rows never returns an error; sum is
\* decremented first; count - n is then computed on the u64: a build without overflow
\* checks returns Ok with count wrapped to count - n + 2^64, an overflow-checked build
\* panics at the subtraction with count as it was; either way I2 no longer holds
RetractBeyondCount ==
    RetractedTooMany =>
        /\ last.result # "Err"
        /\ acc.sum = sub_wrapping(roundtrip.pre.sum,
                                  compute_sum(roundtrip.batch[1].values)[1])
        /\ IF overflow_checks
           THEN last.result = "Panic" /\ acc.count = roundtrip.pre.count
           ELSE /\ last.result = "Ok"
                /\ acc.count = sub_wrapping(roundtrip.pre.count, FromNat(Retracted))
                /\ acc.count[NLimbs] = Base - 1
        /\ ~CountInScope

\* count 1, two non-null rows retracted, no overflow checks: count wraps to 2^64 - 1
RetractBeyondCountWitness ==
    /\ RetractedTooMany
    /\ ~overflow_checks
    /\ roundtrip.pre.count = One
    /\ Retracted = 2
    /\ acc.count = AllOnes
    /\ last.result = "Ok"

(***************************************************************************)
(* Frame of evaluate() and state()                                         *)
(***************************************************************************)
\* C18: evaluate() and state() leave the accumulator (sum, and count of the sliding one)
\* as it was, wherever they come in a sequence of update/merge/retract calls; they
\* return the current value (null per the accumulator's rule), and the scalar state()
\* is the one-element list of the value evaluate() returns
EvaluateAndStateReadOnly ==
    last.op \in {"evaluate", "state"} =>
        /\ ~last.changed
        /\ last.result = "Ok"
        /\ last.ret[1] = [data_type |-> acc.data_type,
                          value |-> IF mode = "plain" THEN acc.sum
                                    ELSE IF acc.count # Zero THEN Some(acc.sum)
                                    ELSE None]
        /\ mode = "plain" => Len(last.ret) = 1

\* state() after evaluate() of a scalar accumulator that holds a sum
EvaluateAndStateWitness ==
    /\ mode = "plain"
    /\ last.op = "state"
    /\ calls = 3
    /\ acc.sum = Some(I64Min)
    /\ last.ret = <<[data_type |-> acc.data_type, value |-> Some(I64Min)]>>

====
